---- MODULE Spec2Model ----
(***************************************************************************)
(* Bitcoin side of the BEAM <-> BTC atomic swap: wallet/swaps/             *)
(* bitcoin_side.cpp.  One BitcoinSide driver, the parameters it persists   *)
(* through the outer transaction (m_tx), its three in-memory members, and  *)
(* the RPCs it has issued to the Bitcoin node and whose replies have not   *)
(* been delivered yet.                                                     *)
(*                                                                         *)
(* Optional values (a parameter that may be absent, a boost::optional      *)
(* member) are sequences of length 0 or 1: None is <<>>, Some(x) is <<x>>. *)
(***************************************************************************)
EXTENDS Integers, Sequences, FiniteSets, Bags, TLC

VARIABLES
    driven,                           \* the subtx operations the outer transaction calls in this run
    m_isBtcOwner,                     \* constructor argument
    ndebug,                           \* the build: TRUE when assert() is compiled out
    seen,                             \* history of the swap: what has happened so far
    AtomicSwapAddress,                \* TxParameterID::AtomicSwapAddress (optional)
    PreImage,                         \* TxParameterID::PreImage @ BEAM_REDEEM_TX (optional)
    State,                            \* TxParameterID::State per subtx
    TransactionRegistered,            \* TxParameterID::TransactionRegistered per subtx (optional)
    AtomicSwapExternalTxID,           \* TxParameterID::AtomicSwapExternalTxID per subtx (optional)
    AtomicSwapExternalTxOutputIndex,  \* ... @ LOCK_TX (optional)
    AtomicSwapExternalTx,             \* TxParameterID::AtomicSwapExternalTx per subtx (optional)
    m_SwapLockRawTx,                  \* boost::optional<std::string>
    m_SwapWithdrawRawTx,              \* boost::optional<std::string>
    m_SwapLockTxConfirmations,        \* uint32_t
    rpc,                              \* bag of RPCs issued and not yet completed
    aborted,                          \* the process died on an assertion / invalid access
    ret                               \* the last step: operation, result, RPCs issued, parameter overwritten

vars == << driven, m_isBtcOwner, ndebug, seen, AtomicSwapAddress, PreImage, State,
           TransactionRegistered, AtomicSwapExternalTxID,
           AtomicSwapExternalTxOutputIndex, AtomicSwapExternalTx,
           m_SwapLockRawTx, m_SwapWithdrawRawTx, m_SwapLockTxConfirmations,
           rpc, aborted, ret >>

params == << AtomicSwapAddress, PreImage, State, TransactionRegistered,
             AtomicSwapExternalTxID, AtomicSwapExternalTxOutputIndex,
             AtomicSwapExternalTx >>

members == << m_SwapLockRawTx, m_SwapWithdrawRawTx, m_SwapLockTxConfirmations >>

-----------------------------------------------------------------------------
(* Bounds of the model *)

MaxPending == 2        \* RPCs outstanding at once
MaxDriven == 2         \* how many of its three subtx operations the outer transaction mixes in one run
MaxConfirmations == 6  \* largest confirmation count a getTxOut reply carries

(* Program constants *)

kBTCMinTxConfirmations == 6
AtomicSwapAmount == 5000

-----------------------------------------------------------------------------
(* Values *)

None == << >>
Some(x) == << x >>
IsSet(o) == o # None
Val(o) == o[1]

LOCK_TX == "LOCK_TX"
REFUND_TX == "REFUND_TX"
REDEEM_TX == "REDEEM_TX"
SubTxIndex == { LOCK_TX, REFUND_TX, REDEEM_TX }
WithdrawSubTx == { REFUND_TX, REDEEM_TX }

\* enum SwapTxState, in the order Initial < CreatingTx < Constructed
SwapTxState_Initial == 0
SwapTxState_CreatingTx == 1
SwapTxState_Constructed == 2
SwapTxState == { SwapTxState_Initial, SwapTxState_CreatingTx, SwapTxState_Constructed }

Addresses == { "addr1", "addr2" }       \* what getRawChangeAddress may return
AtomicSwapPeerAddress == "peerAddr"
AtomicSwapExternalLockTime == "locktime"
Secrets == { "s1", "s2" }               \* what GenRandom may produce
PeerLockImage == "H(s1)"

\* Hash::Processor() << preimage >> lockImage : an injective black box
HashOf(s) == IF s = "s1" THEN "H(s1)" ELSE "H(s2)"


\* A script: the fields AtomicSwapContract() assembles the opcodes from.
NoScript == [ sender |-> "", receiver |-> "", locktime |-> "", secretHash |-> "" ]
WrongScript == [ sender |-> "x", receiver |-> "x", locktime |-> "x", secretHash |-> "x" ]

\* A raw transaction (the hex string): what it is, the subtx it was created
\* for, the subtx whose input script it carries, and the contract script it
\* holds (lock) or was signed against (withdraw).
RawTx(kind, sub, sig, script) ==
    [ kind |-> kind, sub |-> sub, sig |-> sig, script |-> script ]
Garbage == RawTx("garbage", "", "", NoScript)

\* The txid a node reports for a raw transaction, and the one the peer reports
\* for its lock transaction.
TxIdOf(raw) == [ tx |-> raw ]
PeerLockTxID == TxIdOf(RawTx("signed", LOCK_TX, "peer", NoScript))

\* An outstanding RPC: method, the subtx its callback is bound to ("" if none)
\* and the raw transaction passed or described by the arguments (optional).
Rpc(m, sub, arg) == [ m |-> m, sub |-> sub, arg |-> arg ]
Issue(r) == rpc (+) SetToBag({ r })
Complete(r) == rpc (-) SetToBag({ r })
Pending(m) == { r \in BagToSet(rpc) : r.m = m }
CanIssue == BagCardinality(rpc) < MaxPending

\* m_tx.SetParameter(id, value, ..., subTxID): the store holds the value set
\* last, whether or not the parameter was present.
SetParameter(old, value) == Some(value)

\* What a step leaves in `ret`
\* (over: the step set a parameter that was already present)
\* (reply: the result of the RPC reply a callback processed)
NoReply == "none"
Ret(op, sub, val, rpcs, over) ==
    [ op |-> op, sub |-> sub, val |-> val, rpcs |-> rpcs, over |-> over,
      reply |-> NoReply, update |-> FALSE ]
RetOn(reply, op, sub, val, rpcs, over) ==
    [ Ret(op, sub, val, rpcs, over) EXCEPT !.reply = reply ]

\* m_tx.UpdateAsync() / m_tx.Update(): the step asks the outer transaction to
\* advance the driver again.
UpdateAsync(r) == [ r EXCEPT !.update = TRUE ]

-----------------------------------------------------------------------------
(* Helpers of the driver *)

\* GetMandatoryParameter throws when the parameter is absent; the operation
\* that called it ends there, before it changed anything.
HasPeerLockImage == ~m_isBtcOwner
CanCreateAtomicSwapContract ==
    IsSet(AtomicSwapAddress) /\ (IsSet(PreImage) \/ HasPeerLockImage)

CreateAtomicSwapContract ==
    LET swapAddress == Val(AtomicSwapAddress)
        lockImage == IF IsSet(PreImage) THEN HashOf(Val(PreImage)) ELSE PeerLockImage
    IN  [ sender     |-> IF m_isBtcOwner THEN swapAddress ELSE AtomicSwapPeerAddress,
          receiver   |-> IF m_isBtcOwner THEN AtomicSwapPeerAddress ELSE swapAddress,
          locktime   |-> AtomicSwapExternalLockTime,
          secretHash |-> lockImage ]

Throw(op, sub) ==
    /\ ret' = Ret("throw", op, FALSE, << >>, FALSE)
    /\ UNCHANGED << driven, m_isBtcOwner, ndebug, seen, params, members, rpc, aborted >>

Abort(op, r) ==
    /\ aborted' = TRUE
    /\ rpc' = r
    /\ ret' = Ret("abort", op, FALSE, << >>, FALSE)
    /\ UNCHANGED << driven, m_isBtcOwner, ndebug, seen, params, members >>

-----------------------------------------------------------------------------
(* State after construction, for a fresh swap *)

SubTxOperations == { "SendLockTx", "ConfirmLockTx", "SendRefund", "SendRedeem" }

\* The BTC owner funds the lock transaction (SendLockTx); the other party
\* waits for the peer's lock txid (ConfirmLockTx).
OperationsOf(isBtcOwner) ==
    IF isBtcOwner
    THEN SubTxOperations \ { "ConfirmLockTx" }
    ELSE SubTxOperations \ { "SendLockTx" }

Init ==
    /\ m_isBtcOwner \in BOOLEAN
    /\ driven \in { ops \in SUBSET OperationsOf(m_isBtcOwner) :
                       Cardinality(ops) = IF MaxDriven < 3 THEN MaxDriven ELSE 3 }
    /\ ndebug \in BOOLEAN
    /\ seen = { }
    /\ AtomicSwapAddress = None
    /\ PreImage = None
    /\ State = [ s \in SubTxIndex |-> SwapTxState_Initial ]
    /\ TransactionRegistered = [ s \in SubTxIndex |-> None ]
    /\ AtomicSwapExternalTxID = [ s \in SubTxIndex |-> None ]
    /\ AtomicSwapExternalTxOutputIndex = None
    /\ AtomicSwapExternalTx = [ s \in WithdrawSubTx |-> None ]
    /\ m_SwapLockRawTx = None
    /\ m_SwapWithdrawRawTx = None
    /\ m_SwapLockTxConfirmations = 0
    /\ rpc = EmptyBag
    /\ aborted = FALSE
    /\ ret = Ret("ctor", "", FALSE, << >>, FALSE)

-----------------------------------------------------------------------------
(* Advance operations, called by the outer transaction *)

\* GenRandom: a fresh value every time (the first one is named "s1").
GenRandom == IF IsSet(PreImage) THEN Secrets \ { Val(PreImage) } ELSE { "s1" }

\* LoadSwapAddress: TRUE when the address is known, else it asks the node.
LoadSwapAddress == IsSet(AtomicSwapAddress)

Initial ==
    /\ ~aborted
    /\ IF ~LoadSwapAddress
       THEN /\ CanIssue
            /\ rpc' = Issue(Rpc("getRawChangeAddress", "", None))
            /\ ret' = Ret("Initial", "", FALSE, << "getRawChangeAddress" >>, FALSE)
            /\ UNCHANGED PreImage
       ELSE /\ IF m_isBtcOwner
               THEN \E preimage \in GenRandom :                    \* InitSecret
                         PreImage' = SetParameter(PreImage, preimage)
               ELSE UNCHANGED PreImage
            /\ ret' = Ret("Initial", "", TRUE, << >>, m_isBtcOwner /\ IsSet(PreImage))
            /\ UNCHANGED rpc
    /\ UNCHANGED << driven, m_isBtcOwner, ndebug, seen, AtomicSwapAddress, State,
                    TransactionRegistered, AtomicSwapExternalTxID,
                    AtomicSwapExternalTxOutputIndex, AtomicSwapExternalTx,
                    members, aborted >>

\* RegisterTx: the broadcast is requested only while TransactionRegistered is
\* absent, and the value returned is the local isRegistered (false when the
\* parameter was not read).
RegisterTxIssues_RetryOnFalse(subTxID) == TransactionRegistered[subTxID] # Some(TRUE)

RegisterTxIssues(subTxID) == ~IsSet(TransactionRegistered[subTxID])

RegisterTxReturn_TrueOnceSent(subTxID) ==
    IF ~IsSet(TransactionRegistered[subTxID])
    THEN TRUE
    ELSE Val(TransactionRegistered[subTxID])

RegisterTxReturn(subTxID) ==
    IF ~IsSet(TransactionRegistered[subTxID])
    THEN FALSE
    ELSE Val(TransactionRegistered[subTxID])

RegisterTx(op, rawTransaction, subTxID) ==
    /\ IF RegisterTxIssues(subTxID)
       THEN /\ CanIssue
            /\ rpc' = Issue(Rpc("sendRawTransaction", subTxID, Some(rawTransaction)))
            /\ ret' = Ret(op, subTxID, RegisterTxReturn(subTxID), << "sendRawTransaction" >>, FALSE)
       ELSE /\ rpc' = rpc
            /\ ret' = Ret(op, subTxID, RegisterTxReturn(subTxID), << >>, FALSE)
    /\ UNCHANGED << driven, m_isBtcOwner, ndebug, seen, params, aborted >>

\* BuildLockTx starts the construction only from SwapTxState::Initial.
BuildLockTxStarts_Always(swapTxState) == swapTxState \in SwapTxState

BuildLockTxStarts_UntilConstructed(swapTxState) == swapTxState # SwapTxState_Constructed

BuildLockTxStarts(swapTxState) == swapTxState = SwapTxState_Initial

SendLockTx ==
    /\ "SendLockTx" \in driven
    /\ ~aborted
    /\ IF BuildLockTxStarts(State[LOCK_TX])
       THEN IF ~CanCreateAtomicSwapContract
            THEN Throw("SendLockTx", LOCK_TX)
            ELSE /\ CanIssue
                 /\ rpc' = Issue(Rpc("fundRawTransaction", LOCK_TX,
                                     Some(RawTx("contract", LOCK_TX, "", CreateAtomicSwapContract))))
                 /\ State' = [ State EXCEPT ![LOCK_TX] = SwapTxState_CreatingTx ]
                 /\ ret' = Ret("SendLockTx", LOCK_TX, FALSE, << "fundRawTransaction" >>, FALSE)
                 /\ UNCHANGED << driven, m_isBtcOwner, ndebug, seen, AtomicSwapAddress, PreImage,
                                 TransactionRegistered, AtomicSwapExternalTxID,
                                 AtomicSwapExternalTxOutputIndex, AtomicSwapExternalTx,
                                 members, aborted >>
       ELSE IF State[LOCK_TX] # SwapTxState_Constructed
            THEN /\ ret' = Ret("SendLockTx", LOCK_TX, FALSE, << >>, FALSE)
                 /\ UNCHANGED << driven, m_isBtcOwner, ndebug, seen, params, members, rpc, aborted >>
            ELSE IF IsSet(m_SwapLockRawTx)
                 THEN RegisterTx("SendLockTx", Val(m_SwapLockRawTx), LOCK_TX)
                      /\ UNCHANGED members
                 ELSE \* assert(m_SwapLockRawTx.is_initialized()) fails
                      IF ~ndebug
                      THEN Abort("SendLockTx", rpc)
                      ELSE IF RegisterTxIssues(LOCK_TX)
                           THEN \* the empty optional is read: invalid access
                                \/ Abort("SendLockTx", rpc)
                                \/ RegisterTx("SendLockTx", Garbage, LOCK_TX)
                                   /\ UNCHANGED members
                           ELSE RegisterTx("SendLockTx", Garbage, LOCK_TX)
                                /\ UNCHANGED members

\* if (m_SwapLockTxConfirmations < kBTCMinTxConfirmations)
NeedsMoreConfirmations_OffByOne == m_SwapLockTxConfirmations <= kBTCMinTxConfirmations

NeedsMoreConfirmations == m_SwapLockTxConfirmations < kBTCMinTxConfirmations

ConfirmLockTx ==
    /\ "ConfirmLockTx" \in driven
    /\ ~aborted
    /\ IF ~IsSet(AtomicSwapExternalTxID[LOCK_TX])
       THEN \* wait TxID from peer
            /\ ret' = Ret("ConfirmLockTx", LOCK_TX, FALSE, << >>, FALSE)
            /\ UNCHANGED << rpc, seen >>
       ELSE IF NeedsMoreConfirmations
            THEN \* GetSwapLockTxConfirmations
                 IF ~IsSet(AtomicSwapExternalTxOutputIndex)
                 THEN /\ ret' = Ret("throw", "ConfirmLockTx", FALSE, << >>, FALSE)
                      /\ UNCHANGED << rpc, seen >>
                 ELSE /\ CanIssue
                      /\ rpc' = Issue(Rpc("getTxOut", LOCK_TX, None))
                      /\ ret' = Ret("ConfirmLockTx", LOCK_TX, FALSE, << "getTxOut" >>, FALSE)
                      /\ UNCHANGED seen
            ELSE /\ ret' = Ret("ConfirmLockTx", LOCK_TX, TRUE, << >>, FALSE)
                 /\ seen' = seen \cup { "ConfirmLockTx returned true" }
                 /\ UNCHANGED rpc
    /\ UNCHANGED << driven, m_isBtcOwner, ndebug, params, members, aborted >>

\* BuildWithdrawTx, SwapTxState::Initial: the mandatory parameters it reads
CanCreateWithdrawTx ==
    /\ IsSet(AtomicSwapAddress)
    /\ IsSet(AtomicSwapExternalTxOutputIndex)
    /\ IsSet(AtomicSwapExternalTxID[LOCK_TX])

SendWithdrawTx(op, subTxID) ==
    /\ op \in driven
    /\ ~aborted
    /\ IF ~IsSet(TransactionRegistered[subTxID])
       THEN \* BuildWithdrawTx(subTxID)
            IF State[subTxID] = SwapTxState_Initial
            THEN IF ~CanCreateWithdrawTx
                 THEN Throw(op, subTxID)
                 ELSE /\ CanIssue
                      /\ rpc' = Issue(Rpc("createRawTransaction", subTxID,
                                          Some(RawTx("withdraw", subTxID, "", NoScript))))
                      /\ State' = [ State EXCEPT ![subTxID] = SwapTxState_CreatingTx ]
                      /\ ret' = Ret(op, subTxID, FALSE, << "createRawTransaction" >>, FALSE)
                      /\ UNCHANGED << driven, m_isBtcOwner, ndebug, seen, AtomicSwapAddress, PreImage,
                                      TransactionRegistered, AtomicSwapExternalTxID,
                                      AtomicSwapExternalTxOutputIndex, AtomicSwapExternalTx,
                                      members, aborted >>
            ELSE IF State[subTxID] = SwapTxState_CreatingTx
                 THEN /\ CanIssue
                      /\ rpc' = Issue(Rpc("dumpPrivKey", subTxID, None))
                      /\ ret' = Ret(op, subTxID, FALSE, << "dumpPrivKey" >>, FALSE)
                      /\ UNCHANGED << driven, m_isBtcOwner, ndebug, seen, params, members, aborted >>
                 ELSE \* Constructed
                      LET raw == IF IsSet(m_SwapWithdrawRawTx)
                                 THEN m_SwapWithdrawRawTx
                                 ELSE AtomicSwapExternalTx[subTxID]
                      IN  /\ m_SwapWithdrawRawTx' = raw
                          /\ UNCHANGED << m_SwapLockRawTx, m_SwapLockTxConfirmations >>
                          /\ RegisterTx(op, Val(raw), subTxID)
       ELSE IF IsSet(m_SwapWithdrawRawTx)
            THEN RegisterTx(op, Val(m_SwapWithdrawRawTx), subTxID) /\ UNCHANGED members
            ELSE \* *m_SwapWithdrawRawTx on an empty optional; the value is not read
                 IF ~ndebug
                 THEN Abort(op, rpc)
                 ELSE RegisterTx(op, Garbage, subTxID) /\ UNCHANGED members

SendRefund == SendWithdrawTx("SendRefund", REFUND_TX)

SendRedeem == SendWithdrawTx("SendRedeem", REDEEM_TX)

-----------------------------------------------------------------------------
(* RPC completions *)

\* "Don't need overwrite existing address"
StoresAddress_Always == TRUE

StoresAddress == ~IsSet(AtomicSwapAddress)

\* The node hands out a new address on every call (the first one delivered is
\* named "addr1").
GetRawChangeAddressResults ==
    IF IsSet(AtomicSwapAddress) THEN Addresses \ { Val(AtomicSwapAddress) } ELSE { "addr1" }

OnGetRawChangeAddress ==
    /\ ~aborted
    /\ \E r \in Pending("getRawChangeAddress") : \E result \in GetRawChangeAddressResults :
         /\ rpc' = Complete(r)
         /\ AtomicSwapAddress' = IF StoresAddress
                                THEN SetParameter(AtomicSwapAddress, result)
                                ELSE AtomicSwapAddress
         /\ ret' = UpdateAsync(Ret("OnGetRawChangeAddress", "", StoresAddress, << >>,
                                   StoresAddress /\ IsSet(AtomicSwapAddress)))
    /\ UNCHANGED << driven, m_isBtcOwner, ndebug, seen, PreImage, State,
                    TransactionRegistered, AtomicSwapExternalTxID,
                    AtomicSwapExternalTxOutputIndex, AtomicSwapExternalTx,
                    members, aborted >>

\* uint32_t valuePosition = changePos ? 0 : 1;
ValuePosition_OnlyChangeLast(changePos) == IF changePos = 1 THEN 0 ELSE 1

ValuePosition(changePos) == IF changePos # 0 THEN 0 ELSE 1

OnFundRawTransaction ==
    /\ ~aborted
    /\ \E r \in Pending("fundRawTransaction") : \E changePos \in { -1, 0, 1 } :
         LET hexTx == RawTx("funded", LOCK_TX, "", Val(r.arg).script)
         IN  /\ AtomicSwapExternalTxOutputIndex' =
                    SetParameter(AtomicSwapExternalTxOutputIndex, ValuePosition(changePos))
             /\ rpc' = Complete(r) (+) SetToBag({ Rpc("signRawTransaction", LOCK_TX, Some(hexTx)) })
             /\ ret' = RetOn(changePos, "OnFundRawTransaction", LOCK_TX, TRUE,
                              << "signRawTransaction" >>, FALSE)
    /\ UNCHANGED << driven, m_isBtcOwner, ndebug, seen, AtomicSwapAddress, PreImage, State,
                    TransactionRegistered, AtomicSwapExternalTxID,
                    AtomicSwapExternalTx, members, aborted >>

\* m_SwapLockRawTx = result["hex"].get<std::string>();
StoredLockRawTx_OnlyComplete(complete, hex) == IF complete THEN Some(hex) ELSE None

StoredLockRawTx(complete, hex) == Some(hex)

OnSignLockTransaction ==
    /\ ~aborted
    /\ \E r \in Pending("signRawTransaction") : \E complete \in BOOLEAN :
         LET hex == RawTx(IF complete THEN "signed" ELSE "partial", LOCK_TX,
                          IF complete THEN "wallet" ELSE "", Val(r.arg).script)
         IN  IF ~complete /\ ~ndebug
             THEN Abort("OnSignLockTransaction", Complete(r))   \* assert(result["complete"])
             ELSE /\ rpc' = Complete(r)
                  /\ m_SwapLockRawTx' = StoredLockRawTx(complete, hex)
                  /\ State' = [ State EXCEPT ![LOCK_TX] = SwapTxState_Constructed ]
                  /\ ret' = UpdateAsync(RetOn(complete, "OnSignLockTransaction", LOCK_TX,
                                               complete, << >>, FALSE))
                  /\ UNCHANGED << driven, m_isBtcOwner, ndebug, seen, AtomicSwapAddress, PreImage,
                                  TransactionRegistered, AtomicSwapExternalTxID,
                                  AtomicSwapExternalTxOutputIndex, AtomicSwapExternalTx,
                                  m_SwapWithdrawRawTx, m_SwapLockTxConfirmations,
                                  aborted >>

\* The callback RegisterTx binds to sendRawTransaction.  The node answers
\* with the transaction's id or with the empty string.
EmptyString == << >>
SendRawTransactionResults(rawTransaction) ==
    IF rawTransaction = Garbage
    THEN { EmptyString }
    ELSE { EmptyString, << TxIdOf(rawTransaction) >> }

\* bool isRegistered = !txID.empty();
IsRegisteredFor_Always(txID) == txID \in { EmptyString, txID }

IsRegisteredFor(txID) == txID # EmptyString

\* AtomicSwapExternalTxID of the subtx holds a value this driver stored (the
\* only other writer is the peer's bundle, see ReceiveTxDetails).
WrittenByDriver(subTxID) ==
    /\ IsSet(AtomicSwapExternalTxID[subTxID])
    /\ Val(AtomicSwapExternalTxID[subTxID]) # PeerLockTxID

OnSendRawTransaction ==
    /\ ~aborted
    /\ \E r \in Pending("sendRawTransaction") :
       \E txID \in SendRawTransactionResults(Val(r.arg)) :
         /\ rpc' = Complete(r)
         /\ TransactionRegistered' =
                [ TransactionRegistered EXCEPT ![r.sub] = SetParameter(@, IsRegisteredFor(txID)) ]
         /\ IF txID # EmptyString
            THEN AtomicSwapExternalTxID' =
                     [ AtomicSwapExternalTxID EXCEPT ![r.sub] = SetParameter(@, Val(txID)) ]
            ELSE UNCHANGED AtomicSwapExternalTxID
         /\ ret' = UpdateAsync(Ret("OnSendRawTransaction", r.sub, IsRegisteredFor(txID), << >>,
                                   txID # EmptyString /\ WrittenByDriver(r.sub)))
    /\ UNCHANGED << driven, m_isBtcOwner, ndebug, seen, AtomicSwapAddress, PreImage, State,
                    AtomicSwapExternalTxOutputIndex, AtomicSwapExternalTx,
                    members, aborted >>

\* An exception leaves a callback before it changed anything.
CallbackThrow(op, r) ==
    /\ rpc' = Complete(r)
    /\ ret' = Ret("throw", op, FALSE, << >>, FALSE)
    /\ UNCHANGED << driven, m_isBtcOwner, ndebug, seen, params, members, aborted >>

OnCreateWithdrawTransaction ==
    /\ ~aborted
    /\ \E r \in Pending("createRawTransaction") :
         /\ rpc' = Complete(r)
         /\ IF ~IsSet(m_SwapWithdrawRawTx)
            THEN m_SwapWithdrawRawTx' = r.arg
            ELSE UNCHANGED m_SwapWithdrawRawTx
         /\ ret' = IF ~IsSet(m_SwapWithdrawRawTx)
                    THEN UpdateAsync(Ret("OnCreateWithdrawTransaction", "", TRUE, << >>, FALSE))
                    ELSE Ret("OnCreateWithdrawTransaction", "", FALSE, << >>, FALSE)
    /\ UNCHANGED << driven, m_isBtcOwner, ndebug, seen, params, m_SwapLockRawTx,
                    m_SwapLockTxConfirmations, aborted >>

\* Local signing: the input script of subTxID is installed on the decoded
\* transaction, with the recomputed contract as script code.
SignWithdrawTx(tx, subTxID) ==
    IF tx = Garbage
    THEN Garbage
    ELSE RawTx("withdraw", tx.sub, subTxID, CreateAtomicSwapContract)

DumpPrivateKeySigns(r, tx) ==
    IF ~CanCreateAtomicSwapContract \/ (r.sub = REDEEM_TX /\ ~IsSet(PreImage))
    THEN CallbackThrow("OnDumpPrivateKey", r)
    ELSE /\ rpc' = Complete(r)
         /\ m_SwapWithdrawRawTx' = Some(SignWithdrawTx(tx, r.sub))
         /\ AtomicSwapExternalTx' =
                [ AtomicSwapExternalTx EXCEPT ![r.sub] = SetParameter(@, SignWithdrawTx(tx, r.sub)) ]
         /\ State' = [ State EXCEPT ![r.sub] = SwapTxState_Constructed ]
         /\ ret' = UpdateAsync(Ret("OnDumpPrivateKey", r.sub, TRUE, << >>, FALSE))
         /\ UNCHANGED << driven, m_isBtcOwner, ndebug, seen, AtomicSwapAddress, PreImage,
                         TransactionRegistered, AtomicSwapExternalTxID,
                         AtomicSwapExternalTxOutputIndex, m_SwapLockRawTx,
                         m_SwapLockTxConfirmations, aborted >>

OnDumpPrivateKey ==
    /\ ~aborted
    /\ \E r \in Pending("dumpPrivKey") :
         IF IsSet(m_SwapWithdrawRawTx)
         THEN DumpPrivateKeySigns(r, Val(m_SwapWithdrawRawTx))
         ELSE \* *m_SwapWithdrawRawTx on an empty optional, and the value is read
              IF ~ndebug
              THEN Abort("OnDumpPrivateKey", Complete(r))
              ELSE \/ Abort("OnDumpPrivateKey", Complete(r))
                   \/ DumpPrivateKeySigns(r, Garbage)

\* getTxOut replies: null, or the output's value (in tenths of a satoshi, so
\* that the rounding of value * satoshi_per_bitcoin shows), script and
\* confirmations.
OutputAmount_RoundsUp(value) == (value + 9) \div 10

OutputAmount(value) == (value + 5) \div 10

GetTxOutScripts ==
    { WrongScript }
      \cup (IF CanCreateAtomicSwapContract THEN { CreateAtomicSwapContract } ELSE { })
      \cup (IF IsSet(AtomicSwapExternalTxID[LOCK_TX])
            THEN { Val(AtomicSwapExternalTxID[LOCK_TX]).tx.script } ELSE { })

ConfirmationsReported ==
    { kBTCMinTxConfirmations - 1 } \cup (kBTCMinTxConfirmations .. MaxConfirmations)

GetTxOutResults ==
    [ null : { TRUE }, value : { 0 }, script : { NoScript }, confirmations : { 0 } ]
      \cup [ null : { FALSE },
             value : { 10 * AtomicSwapAmount - 6, 10 * AtomicSwapAmount - 5, 10 * AtomicSwapAmount },
             script : GetTxOutScripts,
             confirmations : ConfirmationsReported ]

OnGetSwapLockTxConfirmations ==
    /\ ~aborted
    /\ \E r \in Pending("getTxOut") : \E result \in GetTxOutResults :
         LET op == "OnGetSwapLockTxConfirmations"
         IN
         IF result.null \/ AtomicSwapAmount > OutputAmount(result.value)
         THEN /\ rpc' = Complete(r)
              /\ ret' = RetOn(result, op, LOCK_TX, FALSE, << >>, FALSE)
              /\ UNCHANGED << driven, m_isBtcOwner, ndebug, seen, params, members, aborted >>
         ELSE IF ~CanCreateAtomicSwapContract
              THEN CallbackThrow(op, r)
              ELSE IF result.script # CreateAtomicSwapContract
                   THEN /\ seen' = seen \cup { "script mismatch" }
                        /\ rpc' = Complete(r)
                        /\ aborted' = ~ndebug            \* assert(script == contractScript)
                        /\ ret' = IF ~ndebug
                                   THEN Ret("abort", op, FALSE, << >>, FALSE)
                                   ELSE RetOn(result, op, LOCK_TX, FALSE, << >>, FALSE)
                        /\ UNCHANGED << driven, m_isBtcOwner, ndebug, params, members >>
                   ELSE /\ rpc' = Complete(r)
                        /\ m_SwapLockTxConfirmations' = result.confirmations
                        /\ ret' = RetOn(result, op, LOCK_TX, TRUE, << >>, FALSE)
                        /\ UNCHANGED << driven, m_isBtcOwner, ndebug, seen, params, m_SwapLockRawTx,
                                        m_SwapWithdrawRawTx, aborted >>

-----------------------------------------------------------------------------
(* Parameters that reach the store from the peer and from the BEAM side *)

\* The peer's AddTxDetails bundle: its lock txid and the HTLC output index.
ReceiveTxDetails ==
    /\ ~aborted
    /\ ~m_isBtcOwner
    /\ ~IsSet(AtomicSwapExternalTxID[LOCK_TX])
    /\ AtomicSwapExternalTxID' = [ AtomicSwapExternalTxID EXCEPT ![LOCK_TX] = Some(PeerLockTxID) ]
    /\ \E outputIndex \in { 0, 1 } : AtomicSwapExternalTxOutputIndex' = Some(outputIndex)
    /\ ret' = Ret("ReceiveTxDetails", LOCK_TX, FALSE, << >>, FALSE)
    /\ UNCHANGED << driven, m_isBtcOwner, ndebug, seen, AtomicSwapAddress, PreImage, State,
                    TransactionRegistered, AtomicSwapExternalTx, members, rpc,
                    aborted >>

\* The secret the BTC owner revealed on the BEAM chain.
ReceivePreImage ==
    /\ ~aborted
    /\ ~m_isBtcOwner
    /\ ~IsSet(PreImage)
    /\ PreImage' = Some("s1")
    /\ ret' = Ret("ReceivePreImage", "", FALSE, << >>, FALSE)
    /\ UNCHANGED << driven, m_isBtcOwner, ndebug, seen, AtomicSwapAddress, State,
                    TransactionRegistered, AtomicSwapExternalTxID,
                    AtomicSwapExternalTxOutputIndex, AtomicSwapExternalTx,
                    members, rpc, aborted >>

-----------------------------------------------------------------------------
(* The process stops and the driver is constructed again over the persisted *)
(* parameters: the members start empty and the old callbacks are gone.      *)

Restart ==
    /\ m_SwapLockRawTx' = None
    /\ m_SwapWithdrawRawTx' = None
    /\ m_SwapLockTxConfirmations' = 0
    /\ rpc' = EmptyBag
    /\ aborted' = FALSE
    /\ ret' = Ret("ctor", "", FALSE, << >>, FALSE)
    /\ UNCHANGED << driven, m_isBtcOwner, ndebug, seen, params >>

-----------------------------------------------------------------------------

\* One lifetime of the driver: every step but the reconstruction.
Lifetime ==
    \/ Initial
    \/ SendLockTx
    \/ ConfirmLockTx
    \/ SendRefund
    \/ SendRedeem
    \/ OnGetRawChangeAddress
    \/ OnFundRawTransaction
    \/ OnSignLockTransaction
    \/ OnSendRawTransaction
    \/ OnCreateWithdrawTransaction
    \/ OnDumpPrivateKey
    \/ OnGetSwapLockTxConfirmations
    \/ ReceiveTxDetails
    \/ ReceivePreImage

Next ==
    \/ Lifetime
    \/ Restart

Spec == Init /\ [][Next]_vars

SpecOneLifetime == Init /\ [][Lifetime]_vars

-----------------------------------------------------------------------------
(* Properties *)

AdvanceOperations == SubTxOperations \cup { "Initial" }
SendOperations == { "SendLockTx", "SendRefund", "SendRedeem" }
PendingFor(m, subTxID) == { r \in Pending(m) : r.sub = subTxID }

\* C1: SendLockTx returns true exactly when TransactionRegistered of LOCK_TX
\* is persisted as true, which is the case only after a sendRawTransaction
\* reply with a non-empty txid was processed for the lock transaction (the
\* driver stored that txid); before Constructed, while the reply is
\* outstanding and after an empty txid it returns false.
C1_SendLockTxReturn ==
    ret.op = "SendLockTx" =>
        /\ ret.val <=> (TransactionRegistered[LOCK_TX] = Some(TRUE))
        /\ ret.val => (State[LOCK_TX] = SwapTxState_Constructed /\ WrittenByDriver(LOCK_TX))

C1_Witness == ret.op = "SendLockTx" /\ ret.val

\* C2: ConfirmLockTx returns true iff the lock txid is present and the cached
\* confirmation count is at least 6; with the txid present and fewer
\* confirmations it issues exactly one getTxOut and returns false; with the
\* txid absent it returns false and issues nothing.
C2_ConfirmLockTxReturn ==
    ret.op = "ConfirmLockTx" =>
        /\ ret.val <=> ( IsSet(AtomicSwapExternalTxID[LOCK_TX])
                         /\ m_SwapLockTxConfirmations >= 6 )
        /\ ( IsSet(AtomicSwapExternalTxID[LOCK_TX]) /\ m_SwapLockTxConfirmations < 6
               => ret.rpcs = << "getTxOut" >> )
        /\ ( ~IsSet(AtomicSwapExternalTxID[LOCK_TX]) => ret.rpcs = << >> )

C2_Witness == ret.op = "ConfirmLockTx" /\ ret.val /\ m_SwapLockTxConfirmations = 6

\* C3: no step lowers the persisted State of LOCK_TX, REFUND_TX or REDEEM_TX
\* (Initial < CreatingTx < Constructed).
C3_StateMonotone ==
    [][ \A s \in SubTxIndex : State'[s] >= State[s] ]_vars

\* a dumpPrivKey completion is still to come for a subtx already Constructed
C3_Witness ==
    \E s \in WithdrawSubTx :
        State[s] = SwapTxState_Constructed /\ PendingFor("dumpPrivKey", s) # { }

C5_RegisteredHasTxID ==
    \A s \in SubTxIndex :
        TransactionRegistered[s] = Some(TRUE) => IsSet(AtomicSwapExternalTxID[s])

C5_Witness == \E s \in SubTxIndex : TransactionRegistered[s] = Some(TRUE)

\* C6: no sendRawTransaction completion stores AtomicSwapExternalTxID for a
\* subtx for which the driver has stored it before.
C6_TxIDWrittenOnce == ~(ret.op = "OnSendRawTransaction" /\ ret.over)

\* C7: sendRawTransaction is issued for a subtx only while
\* TransactionRegistered is absent for it; with the flag present a SendLockTx,
\* SendRefund or SendRedeem issues no RPC and returns the flag's value.
C7_RegisterOnlyWhileAbsent ==
    ret.op \in SendOperations =>
        IF IsSet(TransactionRegistered[ret.sub])
        THEN ret.rpcs = << >> /\ ret.val = Val(TransactionRegistered[ret.sub])
        ELSE ~ret.val

C7_Witness ==
    /\ ret.op \in SendOperations
    /\ TransactionRegistered[ret.sub] = Some(FALSE)

\* C8: once AtomicSwapAddress is present no step changes it.
C8_AddressSetOnce ==
    [][ IsSet(AtomicSwapAddress) => AtomicSwapAddress' = AtomicSwapAddress ]_vars

\* a getRawChangeAddress completion found the address present and kept it
C8_Witness == ret.op = "OnGetRawChangeAddress" /\ ~ret.val

\* C9: an advance operation called again after the driver was reconstructed
\* has the effects of the uninterrupted run: the call does not stop on the
\* members the reconstruction emptied, and the lock transaction it broadcasts
\* is the one that was constructed.
C9_RestartIdempotent ==
    /\ ~(ret.op = "abort" /\ ret.sub \in AdvanceOperations)
    /\ \A r \in PendingFor("sendRawTransaction", LOCK_TX) : Val(r.arg) # Garbage

\* C10: REDEEM_TX and REFUND_TX are never both registered, and a redeem
\* broadcast and a refund broadcast are never outstanding together.
C10_RedeemRefundExclusive ==
    /\ ~( TransactionRegistered[REDEEM_TX] = Some(TRUE)
          /\ TransactionRegistered[REFUND_TX] = Some(TRUE) )
    /\ ~( PendingFor("sendRawTransaction", REDEEM_TX) # { }
          /\ PendingFor("sendRawTransaction", REFUND_TX) # { } )

\* C11: after a getTxOut reply whose scriptPubKey differs from the recomputed
\* contract script, no step constructs a redeem or refund transaction: none
\* issues createRawTransaction or dumpPrivKey and no step changes the State of
\* REDEEM_TX or REFUND_TX.
C11_MismatchStopsWithdraw ==
    [][ "script mismatch" \in seen =>
          /\ \A s \in WithdrawSubTx : State'[s] = State[s]
          /\ ret'.rpcs \notin { << "createRawTransaction" >>, << "dumpPrivKey" >> } ]_vars

\* C12: the cached confirmation count of one driver changes only on a getTxOut
\* reply that is non-null, carries at least AtomicSwapAmount satoshis (the
\* reply's value is in tenths of a satoshi and is rounded to the nearest
\* satoshi) and the recomputed contract script; a null, under-funded or
\* mismatching reply leaves the count and every persisted parameter unchanged.
C12_AcceptedReply(result) ==
    /\ ~result.null
    /\ result.value >= 10 * AtomicSwapAmount - 5
    /\ CanCreateAtomicSwapContract
    /\ result.script = CreateAtomicSwapContract

C12_ConfirmationsFrame ==
    [][ /\ ( m_SwapLockTxConfirmations' # m_SwapLockTxConfirmations /\ ret'.op # "ctor" )
             => ( ret'.op = "OnGetSwapLockTxConfirmations" /\ C12_AcceptedReply(ret'.reply) )
        /\ ( ret'.op = "OnGetSwapLockTxConfirmations" /\ ~C12_AcceptedReply(ret'.reply) )
             => UNCHANGED << m_SwapLockTxConfirmations, params >> ]_vars

\* an under-funded output with the right script was reported
C12_Witness ==
    /\ ret.op = "OnGetSwapLockTxConfirmations"
    /\ ~ret.reply.null
    /\ ret.reply.value = 10 * AtomicSwapAmount - 6
    /\ CanCreateAtomicSwapContract
    /\ ret.reply.script = CreateAtomicSwapContract
    /\ m_SwapLockTxConfirmations < ret.reply.confirmations

\* C13: a fundRawTransaction reply stores AtomicSwapExternalTxOutputIndex of
\* LOCK_TX as 1 when changepos is 0 and as 0 for every other changepos (1, and
\* -1 for no change output); a stored index is always 0 or 1.
C13_OutputIndexMapping ==
    /\ ret.op = "OnFundRawTransaction" =>
           AtomicSwapExternalTxOutputIndex = Some(IF ret.reply = 0 THEN 1 ELSE 0)
    /\ IsSet(AtomicSwapExternalTxOutputIndex) =>
           Val(AtomicSwapExternalTxOutputIndex) \in { 0, 1 }

\* a funded transaction without a change output
C13_Witness ==
    /\ ret.op = "OnFundRawTransaction"
    /\ ret.reply = -1
    /\ AtomicSwapExternalTxOutputIndex = Some(0)

\* C14: a signRawTransaction reply with complete = false does not move LOCK_TX
\* to Constructed, its hex is never held as the lock raw transaction, and it
\* is never passed to sendRawTransaction.
C14_IncompleteSignIsFatal ==
    /\ ~( /\ ret.op = "OnSignLockTransaction"
          /\ ret.reply = FALSE
          /\ State[LOCK_TX] = SwapTxState_Constructed )
    /\ ~( IsSet(m_SwapLockRawTx) /\ Val(m_SwapLockRawTx).kind = "partial" )
    /\ \A r \in PendingFor("sendRawTransaction", LOCK_TX) : Val(r.arg).kind # "partial"

\* C15: the RPCs of the LOCK subtx come in the order fundRawTransaction,
\* signRawTransaction, sendRawTransaction: fundRawTransaction is issued only
\* from Initial, in the step that leaves Initial, with no earlier fund or sign
\* request outstanding or answered (so at most once); signRawTransaction is
\* issued only by a fundRawTransaction completion, which has stored the output
\* index; LOCK_TX becomes Constructed only on a signRawTransaction completion;
\* and sendRawTransaction for LOCK_TX is issued only with LOCK_TX Constructed.
C15_LockRpcOrder ==
    [][ /\ ret'.rpcs = << "fundRawTransaction" >> =>
               /\ State[LOCK_TX] = SwapTxState_Initial
               /\ State'[LOCK_TX] = SwapTxState_CreatingTx
               /\ Pending("fundRawTransaction") = { }
               /\ Pending("signRawTransaction") = { }
               /\ ~IsSet(m_SwapLockRawTx)
        /\ ret'.rpcs = << "signRawTransaction" >> =>
               /\ ret'.op = "OnFundRawTransaction"
               /\ IsSet(AtomicSwapExternalTxOutputIndex')
        /\ ( State'[LOCK_TX] = SwapTxState_Constructed /\ State[LOCK_TX] # SwapTxState_Constructed )
               => ret'.op = "OnSignLockTransaction"
        /\ ( ret'.rpcs = << "sendRawTransaction" >> /\ ret'.sub = LOCK_TX ) =>
               /\ State[LOCK_TX] = SwapTxState_Constructed
               /\ IsSet(AtomicSwapExternalTxOutputIndex) ]_vars

\* the signed lock transaction is being broadcast
C15_Witness ==
    /\ ret.op = "SendLockTx"
    /\ ret.rpcs = << "sendRawTransaction" >>
    /\ \E r \in PendingFor("sendRawTransaction", LOCK_TX) : Val(r.arg).kind = "signed"

\* C16: dumpPrivKey is issued for REDEEM_TX or REFUND_TX only with the subtx
\* in CreatingTx and the in-memory withdraw raw transaction set, so that no
\* dumpPrivKey completion decodes a withdraw raw transaction that is not
\* initialized.
C16_DumpPrivKeyAfterCreate ==
    [][ /\ ret'.rpcs = << "dumpPrivKey" >> =>
               /\ State[ret'.sub] = SwapTxState_CreatingTx
               /\ IsSet(m_SwapWithdrawRawTx)
        /\ ~( ret'.op = "abort" /\ ret'.sub = "OnDumpPrivateKey" )
        /\ m_SwapWithdrawRawTx' # Some(Garbage) ]_vars

\* C17: in one lifetime of the driver the assertions on the in-memory raw
\* transactions hold: with LOCK_TX Constructed the lock raw transaction is
\* initialized, with a withdraw subtx Constructed or its TransactionRegistered
\* present the withdraw raw transaction is initialized, and no SendLockTx,
\* SendRefund or SendRedeem stops on them.
C17_RawTxInitialized ==
    /\ State[LOCK_TX] = SwapTxState_Constructed => IsSet(m_SwapLockRawTx)
    /\ \A s \in WithdrawSubTx :
           ( State[s] = SwapTxState_Constructed \/ IsSet(TransactionRegistered[s]) )
               => IsSet(m_SwapWithdrawRawTx)
    /\ ~( ret.op = "abort" /\ ret.sub \in SendOperations )

\* SendRefund / SendRedeem took the branch with TransactionRegistered present
C17_Witness ==
    /\ ret.op \in { "SendRefund", "SendRedeem" }
    /\ IsSet(TransactionRegistered[ret.sub])
    /\ State[LOCK_TX] = SwapTxState_Constructed

\* C18: the withdraw transaction persisted as AtomicSwapExternalTx of a subtx,
\* and the one passed to sendRawTransaction for it, is the transaction that
\* createRawTransaction returned for that same subtx, carrying that subtx's
\* input script.
C18_OwnWithdrawRawTx ==
    \A s \in WithdrawSubTx :
        /\ ( IsSet(AtomicSwapExternalTx[s]) /\ Val(AtomicSwapExternalTx[s]) # Garbage )
               => ( Val(AtomicSwapExternalTx[s]).sub = s /\ Val(AtomicSwapExternalTx[s]).sig = s )
        /\ \A r \in PendingFor("sendRawTransaction", s) :
               Val(r.arg) # Garbage => ( Val(r.arg).sub = s /\ Val(r.arg).sig = s )

\* C19: once PreImage under BEAM_REDEEM_TX is stored no step changes it, so
\* the secret hash of the contract script stays the one the lock transaction
\* was built with.
C19_PreImageImmutable ==
    [][ IsSet(PreImage) =>
          /\ PreImage' = PreImage
          /\ \A r \in Pending("fundRawTransaction") :
                 CanCreateAtomicSwapContract' =>
                     Val(r.arg).script.secretHash = CreateAtomicSwapContract'.secretHash ]_vars

\* C20: once ConfirmLockTx has returned true, the cached confirmation count
\* stays at 6 or more and every later ConfirmLockTx returns true.
C20_ConfirmedStaysConfirmed ==
    "ConfirmLockTx returned true" \in seen =>
        /\ m_SwapLockTxConfirmations >= kBTCMinTxConfirmations
        /\ ret.op = "ConfirmLockTx" => ret.val

-----------------------------------------------------------------------------
(* Progress: the outer transaction advances the driver exactly when asked   *)
(* to, and every RPC is answered successfully.                              *)

OperationOf(subTxID) ==
    CASE subTxID = LOCK_TX   -> "SendLockTx"
      [] subTxID = REFUND_TX -> "SendRefund"
      [] subTxID = REDEEM_TX -> "SendRedeem"

SubTxOf(op) == CHOOSE s \in SubTxIndex : OperationOf(s) = op

\* The send operations of this run that have not returned true yet, and the
\* one the outer transaction is at: lock first, then refund, then redeem.
Unfinished ==
    { op \in driven \cap SendOperations : TransactionRegistered[SubTxOf(op)] # Some(TRUE) }

FirstUnfinished ==
    IF "SendLockTx" \in Unfinished THEN { "SendLockTx" }
    ELSE IF "SendRefund" \in Unfinished THEN { "SendRefund" }
    ELSE Unfinished

\* The outer transaction starts a withdraw only once the lock output is known
\* (and, for the redeem, the secret).
Ready(op) ==
    \/ op = "SendLockTx"
    \/ op = "SendRefund" /\ CanCreateWithdrawTx
    \/ op = "SendRedeem" /\ CanCreateWithdrawTx /\ IsSet(PreImage)

\* The operation the outer transaction's dispatcher calls in this state, if
\* any: at the start and after the address arrived it calls Initial; when a
\* callback bound to a subtx asked for an update it calls that subtx's
\* operation; after any other update request, after an operation returned
\* true and after a parameter arrived it goes on with the first unfinished
\* operation.  Otherwise it waits.
OuterAdvances ==
    IF ret.op \in { "ctor", "OnGetRawChangeAddress" }
    THEN { "Initial" }
    ELSE IF ret.update /\ ret.sub \in SubTxIndex
    THEN { OperationOf(ret.sub) }
    ELSE IF \/ ret.update
            \/ ret.op \in AdvanceOperations /\ ret.val
            \/ ret.op \in { "ReceiveTxDetails", "ReceivePreImage" }
    THEN { op \in FirstUnfinished : Ready(op) }
    ELSE { }

OuterWaits == OuterAdvances = { } /\ rpc = EmptyBag

UpdateInitial == "Initial" \in OuterAdvances /\ Initial
UpdateSendLockTx == "SendLockTx" \in OuterAdvances /\ SendLockTx
UpdateSendRefund == "SendRefund" \in OuterAdvances /\ SendRefund
UpdateSendRedeem == "SendRedeem" \in OuterAdvances /\ SendRedeem

\* Every RPC is answered; signing is complete and the txid is not empty.
ReplySignRawTransaction == OnSignLockTransaction /\ ret'.op = "OnSignLockTransaction" /\ ret'.val
ReplySendRawTransaction == OnSendRawTransaction /\ ret'.val

\* Parameters from the peer and the BEAM side arrive while the outer
\* transaction waits.
ArriveTxDetails == OuterWaits /\ ReceiveTxDetails
ArrivePreImage == OuterWaits /\ ReceivePreImage

NextProgress ==
    \/ UpdateInitial
    \/ UpdateSendLockTx
    \/ UpdateSendRefund
    \/ UpdateSendRedeem
    \/ OnGetRawChangeAddress
    \/ OnFundRawTransaction
    \/ ReplySignRawTransaction
    \/ ReplySendRawTransaction
    \/ OnCreateWithdrawTransaction
    \/ OnDumpPrivateKey
    \/ ArriveTxDetails
    \/ ArrivePreImage

Fairness ==
    /\ WF_vars(UpdateInitial)
    /\ WF_vars(UpdateSendLockTx)
    /\ WF_vars(UpdateSendRefund)
    /\ WF_vars(UpdateSendRedeem)
    /\ WF_vars(OnGetRawChangeAddress)
    /\ WF_vars(OnFundRawTransaction)
    /\ WF_vars(ReplySignRawTransaction)
    /\ WF_vars(ReplySendRawTransaction)
    /\ WF_vars(OnCreateWithdrawTransaction)
    /\ WF_vars(OnDumpPrivateKey)
    /\ WF_vars(ArriveTxDetails)
    /\ WF_vars(ArrivePreImage)

SpecProgress == Init /\ [][NextProgress]_vars /\ Fairness

====
